---- MODULE Spec2Model ----
(***************************************************************************)
(* HaLow demo firmware (sender Demo_TX_Hallow_V1 and receiver              *)
(* Demo_RX_Hallow_V1): the cooperative scheduler step loop(), the boot     *)
(* sequence setup(), the Control Surface handlers it services in-line, the *)
(* telemetry reconnect and the bus transaction, as a state machine.        *)
(*                                                                         *)
(* The millisecond counter millis() is an unsigned 32-bit value.  A value  *)
(* is kept as a pair <<hi, lo>> of 16-bit halves, so that every sum and    *)
(* difference is computed modulo 2^32 exactly as the firmware computes it. *)
(***************************************************************************)
EXTENDS Integers, Sequences, FiniteSets, TLC

\* ------------------------------------------------------------------------
\* unsigned long (32-bit) arithmetic
\* ------------------------------------------------------------------------
Half == 2^16

U32(n) == <<(n \div Half) % Half, n % Half>>

Add32(a, b) ==
  LET lo == a[2] + b[2]
  IN  <<(a[1] + b[1] + (lo \div Half)) % Half, lo % Half>>

Sub32(a, b) ==
  LET lo == a[2] - b[2]
  IN  <<(a[1] - b[1] - (IF lo < 0 THEN 1 ELSE 0)) % Half, lo % Half>>

Ge32(a, b) == a[1] > b[1] \/ (a[1] = b[1] /\ a[2] >= b[2])
Gt32(a, b) == a[1] > b[1] \/ (a[1] = b[1] /\ a[2] > b[2])
Lt32(a, b) == ~Ge32(a, b)

Min(a, b) == IF a < b THEN a ELSE b

\* ------------------------------------------------------------------------
\* program constants
\* ------------------------------------------------------------------------
TX_INTERVAL       == 2000
LED_FLASH_MS_TX   == 50
LED_FLASH_MS_RX   == 80
MQTT_RECONNECT_MS == 5000
WIFI_CONNECT_MS   == 15000
AP_TIMEOUT_MS     == 300000
RX_BUF_LEN        == 32
POLL_DELAY_MS     == 500
BOOT_DELAY_MS     == 500
SAVE_DELAY_MS     == 3000
REBOOT_DELAY_MS   == 1000
CS_SETTLE_US      == 10
DEFAULT_PORT      == 1883
SSID_SIZE         == 33
PASS_SIZE         == 65
SERVER_SIZE       == 65
TOPIC_SIZE        == 65
USER_SIZE         == 33
MQTT_MSG_SIZE     == 128

Roles == {"TX", "RX"}

LED_FLASH_MS(r) == IF r = "TX" THEN LED_FLASH_MS_TX ELSE LED_FLASH_MS_RX

\* ------------------------------------------------------------------------
\* bounds of the model
\* ------------------------------------------------------------------------
\* scheduler steps explored from power-on
MaxSteps == 2
\* longest time (ms) the blocking call mqtt.connect() may take
MaxConnectMs == 1

\* ------------------------------------------------------------------------
\* strings: sequences of character codes
\* ------------------------------------------------------------------------
Empty == << >>
StrNet == <<110, 101, 116>>
StrPw == <<112, 119>>
StrMq == <<109, 113>>
StrU == <<117>>
StrTopicTX == <<104, 97, 108, 111, 119, 47, 116, 120>>
StrTopicRX == <<104, 97, 108, 111, 119, 47, 114, 120>>
Str8883 == <<56, 56, 56, 51>>
StrBad == <<120, 49>>
HELLO_PAYLOAD == <<72, 69, 76, 76, 79>>

DefaultTopic(r) == IF r = "TX" THEN StrTopicTX ELSE StrTopicRX

\* String::toCharArray(buf, size): at most size-1 characters are copied
ToCharArray(s, size) == SubSeq(s, 1, Min(Len(s), size - 1))

IsDigit(c) == c >= 48 /\ c <= 57
IsSpace(c) == c = 32 \/ (c >= 9 /\ c <= 13)

RECURSIVE Digits(_, _)
Digits(s, acc) ==
  IF s = Empty \/ ~IsDigit(Head(s)) THEN acc
  ELSE Digits(Tail(s), acc * 10 + (Head(s) - 48))

RECURSIVE SkipSpace(_)
SkipSpace(s) == IF s # Empty /\ IsSpace(Head(s)) THEN SkipSpace(Tail(s)) ELSE s

\* String::toInt(): atol of the text, 0 when no number can be read
ToInt(s) ==
  LET t == SkipSpace(s)
  IN  IF t = Empty THEN 0
      ELSE IF Head(t) = 45 THEN 0 - Digits(Tail(t), 0)
      ELSE IF Head(t) = 43 THEN Digits(Tail(t), 0)
      ELSE Digits(t, 0)

\* assignment of a long to uint16_t cfgMqttPort
ToU16(n) == n % Half

\* ------------------------------------------------------------------------
\* DeviceConfig and the Config Store (Preferences / NVS)
\* ------------------------------------------------------------------------
FieldSize(k) ==
  CASE k = "ssid"      -> SSID_SIZE
    [] k = "pass"      -> PASS_SIZE
    [] k = "mqttSrv"   -> SERVER_SIZE
    [] k = "mqttTopic" -> TOPIC_SIZE
    [] k = "mqttUser"  -> USER_SIZE
    [] k = "mqttPass"  -> PASS_SIZE

\* the global initialisers of the cfg* variables
CfgDefaults(r) ==
  [ssid |-> Empty, pass |-> Empty, mqttSrv |-> Empty, mqttPort |-> DEFAULT_PORT,
   mqttTopic |-> DefaultTopic(r), mqttUser |-> Empty, mqttPass |-> Empty]

\* a store entry is << >> (key absent) or <<value>>
NvsBlank ==
  [ssid |-> << >>, pass |-> << >>, mqttSrv |-> << >>, mqttPort |-> << >>,
   mqttTopic |-> << >>, mqttUser |-> << >>, mqttPass |-> << >>]

\* sender: prefs.getString(key, default) then String::toCharArray(buf, size)
GetStringTX(store, k, dflt) ==
  ToCharArray(IF store[k] = << >> THEN dflt ELSE store[k][1], FieldSize(k))

\* receiver: prefs.getString(key, buf, size) leaves buf as it is when the key
\* is absent or the stored text does not fit
GetStringRX(store, k, buf) ==
  IF store[k] = << >> THEN buf
  ELSE IF Len(store[k][1]) + 1 > FieldSize(k) THEN buf
  ELSE store[k][1]

GetUShort(store, dflt) ==
  IF store.mqttPort = << >> THEN dflt ELSE store.mqttPort[1]

loadConfig(r, store) ==
  IF r = "TX"
  THEN [ssid      |-> GetStringTX(store, "ssid", Empty),
        pass      |-> GetStringTX(store, "pass", Empty),
        mqttSrv   |-> GetStringTX(store, "mqttSrv", Empty),
        mqttPort  |-> GetUShort(store, DEFAULT_PORT),
        mqttTopic |-> GetStringTX(store, "mqttTopic", StrTopicTX),
        mqttUser  |-> GetStringTX(store, "mqttUser", Empty),
        mqttPass  |-> GetStringTX(store, "mqttPass", Empty)]
  ELSE LET d == CfgDefaults(r)
           t == GetStringRX(store, "mqttTopic", d.mqttTopic)
       IN  [ssid      |-> GetStringRX(store, "ssid", d.ssid),
            pass      |-> GetStringRX(store, "pass", d.pass),
            mqttSrv   |-> GetStringRX(store, "mqttSrv", d.mqttSrv),
            mqttPort  |-> GetUShort(store, DEFAULT_PORT),
            mqttTopic |-> IF t = Empty THEN StrTopicRX ELSE t,
            mqttUser  |-> GetStringRX(store, "mqttUser", d.mqttUser),
            mqttPass  |-> GetStringRX(store, "mqttPass", d.mqttPass)]

saveConfig(c) ==
  [ssid |-> <<c.ssid>>, pass |-> <<c.pass>>, mqttSrv |-> <<c.mqttSrv>>,
   mqttPort |-> <<c.mqttPort>>, mqttTopic |-> <<c.mqttTopic>>,
   mqttUser |-> <<c.mqttUser>>, mqttPass |-> <<c.mqttPass>>]

\* POST /save: every form field present overwrites its DeviceConfig field
HasArg(form, k) == k \in DOMAIN form

\* the arguments of a request: << >> for an absent field, <<value>> otherwise
FormKeys == {"ssid", "pass", "ms", "mp", "mt", "mu", "mw"}

FormArgs(form) == [k \in FormKeys |-> IF HasArg(form, k) THEN <<form[k]>> ELSE << >>]

NoArgs == [k \in FormKeys |-> << >>]

\* an absent field clears the buffer
SetFieldAlways(form, k, size, old) ==
  IF HasArg(form, k) THEN ToCharArray(form[k], size) ELSE Empty

SetField(form, k, size, old) ==
  IF HasArg(form, k) THEN ToCharArray(form[k], size) ELSE old

ApplyForm(c, form) ==
  [ssid      |-> SetField(form, "ssid", SSID_SIZE, c.ssid),
   pass      |-> SetField(form, "pass", PASS_SIZE, c.pass),
   mqttSrv   |-> SetField(form, "ms", SERVER_SIZE, c.mqttSrv),
   mqttPort  |-> IF HasArg(form, "mp") THEN ToU16(ToInt(form.mp)) ELSE c.mqttPort,
   mqttTopic |-> SetField(form, "mt", TOPIC_SIZE, c.mqttTopic),
   mqttUser  |-> SetField(form, "mu", USER_SIZE, c.mqttUser),
   mqttPass  |-> SetField(form, "mw", PASS_SIZE, c.mqttPass)]

\* the store contents a device may hold at power-on
NvsProvisioned ==
  saveConfig([ssid |-> StrNet, pass |-> StrPw, mqttSrv |-> StrMq,
              mqttPort |-> DEFAULT_PORT, mqttTopic |-> StrTopicTX,
              mqttUser |-> Empty, mqttPass |-> Empty])

NvsNoTelemetry ==
  saveConfig([ssid |-> StrNet, pass |-> StrPw, mqttSrv |-> Empty,
              mqttPort |-> DEFAULT_PORT, mqttTopic |-> StrTopicTX,
              mqttUser |-> Empty, mqttPass |-> Empty])

InitialStores == {NvsBlank, NvsProvisioned, NvsNoTelemetry}

\* the forms an operator posts to /save
Forms ==
  { [ssid |-> StrNet, pass |-> StrPw, ms |-> StrMq, mu |-> StrU, mw |-> StrPw],
    [mp |-> Str8883] }

\* a topic of 70 characters, longer than the topic buffer
StrLong == [i \in 1..70 |-> 97 + (i % 26)]

\* forms with an empty topic, an over-long topic, a port that is no number
CfgForms ==
  Forms \cup
  { [mp |-> StrBad],
    [mt |-> Empty],
    [mt |-> StrLong],
    [ssid |-> StrNet, ms |-> Empty, mp |-> Empty, mt |-> StrTopicRX] }

\* ------------------------------------------------------------------------
\* the bus transaction: classification and rendering (receiver), messages
\* ------------------------------------------------------------------------
IsSentinel(b) == b = 0 \/ b = 255

\* hasData: some byte of the response is neither 0x00 nor 0xFF
HasData(buf) == \E i \in 1..RX_BUF_LEN : ~IsSentinel(buf[i])

\* a scan that stops at the first byte that is data
RECURSIVE ScanLenFirst(_, _, _)
ScanLenFirst(buf, i, len) ==
  IF i > RX_BUF_LEN THEN len
  ELSE IF ~IsSentinel(buf[i]) THEN i
  ELSE ScanLenFirst(buf, i + 1, len)

\* rxLen: index of the last non-sentinel byte plus one (0 when there is none)
RECURSIVE ScanLen(_, _, _)
ScanLen(buf, i, len) ==
  IF i > RX_BUF_LEN THEN len
  ELSE ScanLen(buf, i + 1, IF ~IsSentinel(buf[i]) THEN i ELSE len)

\* a length that counts one byte too many
RxLenOneMore(buf) == IF HasData(buf) THEN ScanLen(buf, 1, 0) + 1 ELSE 0

RxLen(buf) == ScanLen(buf, 1, 0)

\* char lastRxData[RX_BUF_LEN * 3 + 1]; char lastRxAscii[RX_BUF_LEN + 1];
HEX_BUF_SIZE == RX_BUF_LEN * 3 + 1
ASCII_BUF_SIZE == RX_BUF_LEN + 1

\* "%02x": lowercase digits
HexCharLower(d) == IF d < 10 THEN 48 + d ELSE 87 + d

HexChar(d) == IF d < 10 THEN 48 + d ELSE 55 + d

\* sprintf(p, "%02X ", b)
HexByte(b) == <<HexChar(b \div 16), HexChar(b % 16), 32>>

RECURSIVE HexLoop(_, _, _)
HexLoop(buf, i, n) ==
  IF i > n \/ i > RX_BUF_LEN THEN Empty
  ELSE HexByte(buf[i]) \o HexLoop(buf, i + 1, n)

\* lastRxData: the rendering with its trailing space trimmed
RenderHex(buf, has, n) ==
  IF has /\ n > 0
  THEN LET h == HexLoop(buf, 1, n)
       IN  IF Len(h) > 0 THEN SubSeq(h, 1, Len(h) - 1) ELSE h
  ELSE Empty

AsciiChar(b) == IF b >= 32 /\ b <= 126 THEN b ELSE 46

RECURSIVE AsciiLoop(_, _, _)
AsciiLoop(buf, i, n) ==
  IF i > n \/ i > RX_BUF_LEN THEN Empty
  ELSE <<AsciiChar(buf[i])>> \o AsciiLoop(buf, i + 1, n)

\* lastRxAscii
RenderAscii(buf, has, n) == IF has /\ n > 0 THEN AsciiLoop(buf, 1, n) ELSE Empty

RECURSIVE Decimal(_)
Decimal(n) == IF n < 10 THEN <<48 + n>> ELSE Decimal(n \div 10) \o <<48 + (n % 10)>>

\* snprintf(buf, size, ...): at most size-1 characters are kept
Snprintf(size, text) == SubSeq(text, 1, Min(Len(text), size - 1))

TX_MSG_SIZE == 48

\* {"tx":<count>,"msg":"HELLO"}
TxMessage(count) ==
  Snprintf(TX_MSG_SIZE,
           <<123, 34, 116, 120, 34, 58>> \o Decimal(count)
           \o <<44, 34, 109, 115, 103, 34, 58, 34>> \o HELLO_PAYLOAD \o <<34, 125>>)

\* {"rx":<count>,"hex":"<hex>","ascii":"<ascii>"}
RxMessage(count, hex, ascii) ==
  Snprintf(MQTT_MSG_SIZE,
           <<123, 34, 114, 120, 34, 58>> \o Decimal(count)
           \o <<44, 34, 104, 101, 120, 34, 58, 34>> \o hex
           \o <<34, 44, 34, 97, 115, 99, 105, 105, 34, 58, 34>> \o ascii
           \o <<34, 125>>)

Pad(s) == s \o [i \in 1..(RX_BUF_LEN - Len(s)) |-> 0]

\* what the radio module clocks back on MISO
Responses == { Pad(Empty), Pad(HELLO_PAYLOAD) }

\* a response with byte b at (1-based) position i and `fill` everywhere else
SingleAt(i, b, fill) == [j \in 1..RX_BUF_LEN |-> IF j = i THEN b ELSE fill]

\* the responses explored for the receiver's classification and rendering:
\* empty ones (0x00, 0xFF, both), one byte on either side of the printable
\* range at the first, the fourth and the last position, two bytes with a
\* sentinel between them, HELLO, a full buffer, and one byte at the 25th and
\* at the 26th position
Buffers ==
  { SingleAt(i, b, fill) : i \in {1, 4, RX_BUF_LEN}, b \in {31, 32, 126, 127},
                           fill \in {0, 255} }
  \cup { SingleAt(1, 0, 0), SingleAt(1, 255, 255), SingleAt(4, 255, 0),
         SingleAt(25, 65, 255), SingleAt(26, 65, 255),
         [j \in 1..RX_BUF_LEN |-> IF j \in {2, 4} THEN 10 * j ELSE 255],
         Pad(HELLO_PAYLOAD),
         [j \in 1..RX_BUF_LEN |-> 64 + j] }

\* ------------------------------------------------------------------------
\* state
\* ------------------------------------------------------------------------
\* an elapsed time that is not reduced modulo 2^32: `v` is its value while it is
\* below 2^32, `ovf` tells that it has reached 2^32, `set` that its mark exists
WUnset == [set |-> FALSE, ovf |-> FALSE, v |-> U32(0)]
WZero == [set |-> TRUE, ovf |-> FALSE, v |-> U32(0)]

Carry(a, b) == a[1] + b[1] + ((a[2] + b[2]) \div Half) >= Half

WAdd(w, g) ==
  IF ~w.set THEN w
  ELSE [set |-> TRUE, ovf |-> w.ovf \/ Carry(w.v, g), v |-> Add32(w.v, g)]

WAtLeast(w, n) == w.set /\ (w.ovf \/ Ge32(w.v, U32(n)))

VARIABLES
  role,              \* which firmware runs: "TX" (sender) or "RX" (receiver)
  phase,             \* "boot": reset, setup() not yet run; "run": loop() is being invoked
  nvs,               \* the Config Store (survives a restart)
  cfg,               \* cfgSSID, cfgPass, cfgMqttServer, cfgMqttPort, cfgMqttTopic, ...
  apMode, wifiConnected,
  mqttConnected,     \* the sender's flag (the receiver has none)
  mqttLink,          \* what mqtt.connected() reports
  txCount,           \* txCount (sender) / rxCount (receiver)
  lastTx,            \* lastTx (sender) / lastRx (receiver)
  lastLedOff, lastMqttReconnect, apStartTime, ledOn, lastSpiResult,
  rxBuf, rxLen, lastRxData, lastRxAscii,
  now,               \* the millisecond counter at the end of the last action
  steps,             \* scheduler steps taken since power-on
  since,             \* observer: the true time elapsed since each timer mark
  ev                 \* observer: what the last action did

ramVars ==
  <<cfg, apMode, wifiConnected, mqttConnected, mqttLink, txCount, lastTx,
    lastLedOff, lastMqttReconnect, apStartTime, ledOn, lastSpiResult,
    rxBuf, rxLen, lastRxData, lastRxAscii>>

vars == <<role, phase, nvs, ramVars, now, steps, since, ev>>

EvNone ==
  [act |-> "none", req |-> "none",
   restart |-> "none", delayUs |-> 0,
   wifiBegin |-> FALSE, upAt |-> 0, waited |-> 0,
   reconnCalled |-> FALSE, connectCall |-> FALSE, connectHost |-> Empty,
   withCreds |-> FALSE, connectAt |-> U32(0), connGap |-> WUnset,
   loopCalled |-> FALSE, wifi |-> FALSE, hostEmpty |-> TRUE, linkBefore |-> FALSE,
   lastRcBefore |-> U32(0), connSpan |-> WUnset,
   txElapsed |-> U32(0), txSpan |-> WUnset, txn |-> 0, countDelta |-> 0,
   markGap |-> WUnset,
   armed |-> FALSE, armAt |-> U32(0), ledBefore |-> FALSE, ledWasOn |-> FALSE, ledCheckAt |-> U32(0),
   ledOffNow |-> FALSE, armSpan |-> WUnset,
   published |-> FALSE, pubMsg |-> Empty, pubLink |-> FALSE,
   apSpan |-> WUnset,
   form |-> NoArgs]

\* at reset: lastTx and lastMqttReconnect hold 0, the counter reads 0
SinceReset == [tx |-> WZero, conn |-> WZero, arm |-> WUnset, ap |-> WUnset, tried |-> FALSE]

Elapse(s, g) ==
  [tx |-> WAdd(s.tx, g), conn |-> WAdd(s.conn, g), arm |-> WAdd(s.arm, g),
   ap |-> WAdd(s.ap, g), tried |-> s.tried]

\* the values of the globals after a reset
RamReset ==
  /\ cfg' = CfgDefaults(role)
  /\ apMode' = FALSE
  /\ wifiConnected' = FALSE
  /\ mqttConnected' = FALSE
  /\ mqttLink' = FALSE
  /\ txCount' = 0
  /\ lastTx' = U32(0)
  /\ lastLedOff' = U32(0)
  /\ lastMqttReconnect' = U32(0)
  /\ apStartTime' = U32(0)
  /\ ledOn' = FALSE
  /\ lastSpiResult' = -1
  /\ rxBuf' = Pad(Empty)
  /\ rxLen' = 0
  /\ lastRxData' = Empty
  /\ lastRxAscii' = Empty

Init ==
  /\ role \in Roles
  /\ phase = "boot"
  /\ nvs \in InitialStores
  /\ cfg = CfgDefaults(role)
  /\ apMode = FALSE
  /\ wifiConnected = FALSE
  /\ mqttConnected = FALSE
  /\ mqttLink = FALSE
  /\ txCount = 0
  /\ lastTx = U32(0)
  /\ lastLedOff = U32(0)
  /\ lastMqttReconnect = U32(0)
  /\ apStartTime = U32(0)
  /\ ledOn = FALSE
  /\ lastSpiResult = -1
  /\ rxBuf = Pad(Empty)
  /\ rxLen = 0
  /\ lastRxData = Empty
  /\ lastRxAscii = Empty
  /\ now = U32(0)
  /\ steps = 0
  /\ since = SinceReset
  /\ ev = EvNone

\* ------------------------------------------------------------------------
\* setup(): load the config, then connectWiFi() or startAP()
\* ------------------------------------------------------------------------
\* WiFi.status() == WL_CONNECTED, `e` ms after WiFi.begin(), for a link that
\* comes up `upAt` ms after it
LinkUp(upAt, e) == upAt <= e

\* a wait that gives up one poll early
RECURSIVE WaitLoopShort(_, _)
WaitLoopShort(upAt, e) ==
  IF ~LinkUp(upAt, e) /\ e + POLL_DELAY_MS < WIFI_CONNECT_MS
  THEN WaitLoopShort(upAt, e + POLL_DELAY_MS)
  ELSE e

\* a wait that polls once more after the time is up
RECURSIVE WaitLoopLong(_, _)
WaitLoopLong(upAt, e) ==
  IF ~LinkUp(upAt, e) /\ e < WIFI_CONNECT_MS + POLL_DELAY_MS
  THEN WaitLoopLong(upAt, e + POLL_DELAY_MS)
  ELSE e

\* while (WiFi.status() != WL_CONNECTED && millis() - start < WIFI_CONNECT_MS) delay(500);
\* the value is the time waited
RECURSIVE WaitLoop(_, _)
WaitLoop(upAt, e) ==
  IF ~LinkUp(upAt, e) /\ e < WIFI_CONNECT_MS
  THEN WaitLoop(upAt, e + POLL_DELAY_MS)
  ELSE e

\* the branch after the wait: WiFi.status() == WL_CONNECTED
ConnectedAfterWait(upAt, waited) == LinkUp(upAt, waited)

\* if (cfgSSID[0] != '\0') connectWiFi(); else startAP();
AttemptsManaged(c) == c.ssid # Empty

\* when the managed link comes up, in ms after WiFi.begin()
UpTimes == {0, WIFI_CONNECT_MS, WIFI_CONNECT_MS + 1}

\* a connectWiFi() without its fallback
StartsAPNoFallback(managed, connected) == ~managed

\* connectWiFi()'s else branch and setup()'s else branch both call startAP()
StartsAP(managed, connected) == ~managed \/ ~connected

Setup(upAt) ==
  /\ phase = "boot"
  /\ LET c       == loadConfig(role, nvs)
         managed == AttemptsManaged(c)
         waited  == IF managed THEN WaitLoop(upAt, 0) ELSE 0
         up      == managed /\ ConnectedAfterWait(upAt, waited)
         ap      == StartsAP(managed, up)
         t       == U32(BOOT_DELAY_MS + waited)
     IN  /\ cfg' = c
         /\ wifiConnected' = IF up THEN TRUE ELSE wifiConnected
         /\ apMode' = IF ap THEN TRUE ELSE apMode
         /\ apStartTime' = IF ap THEN t ELSE apStartTime
         /\ now' = t
         /\ since' = [Elapse(SinceReset, t) EXCEPT !.ap = IF ap THEN WZero ELSE WUnset]
         /\ ev' = [EvNone EXCEPT !.act = "setup", !.wifiBegin = managed,
                                 !.upAt = IF managed THEN upAt ELSE 0,
                                 !.waited = waited,
                                 !.delayUs = (BOOT_DELAY_MS + waited) * 1000]
  /\ phase' = "run"
  /\ UNCHANGED <<role, nvs, steps, mqttConnected, mqttLink, txCount, lastTx,
                 lastLedOff, lastMqttReconnect, ledOn, lastSpiResult,
                 rxBuf, rxLen, lastRxData, lastRxAscii>>

\* ------------------------------------------------------------------------
\* the timed eligibility checks
\* ------------------------------------------------------------------------
\* a slip of the comparison: strictly more than the interval
TxDueStrict(t, last) == Gt32(Sub32(t, last), U32(TX_INTERVAL))

\* if (millis() - lastTx >= TX_INTERVAL)
TxDue(t, last) == Ge32(Sub32(t, last), U32(TX_INTERVAL))

\* if (millis() - lastMqttReconnect < MQTT_RECONNECT_MS) return;
ReconnectDue(t, last) == ~Lt32(Sub32(t, last), U32(MQTT_RECONNECT_MS))

\* the receiver flashing for the sender's duration
ArmDeadlineSender(r, t) == Add32(t, U32(LED_FLASH_MS_TX))

\* lastLedOff = millis() + LED_FLASH_MS
ArmDeadline(r, t) == Add32(t, U32(LED_FLASH_MS(r)))

\* if (ledOn && millis() >= lastLedOff)
LedExpired(on, t, off) == on /\ Ge32(t, off)

\* the window measured from the reset instead of from the activation
ApExpiredSinceReset(ap, t, start) == ap /\ Gt32(t, U32(AP_TIMEOUT_MS))

\* if (apMode && millis() - apStartTime > AP_TIMEOUT_MS)
ApExpired(ap, t, start) == ap /\ Gt32(Sub32(t, start), U32(AP_TIMEOUT_MS))

\* ------------------------------------------------------------------------
\* telemetry: loop()'s MQTT section and mqttReconnect()
\* ------------------------------------------------------------------------
\* the MQTT section without its wifiConnected guard
CallsReconnectAnyMode(wifi, link) == ~link

\* loop(): if (wifiConnected) { if (!mqtt.connected()) mqttReconnect(); mqtt.loop(); }
CallsReconnect(wifi, link) == wifi /\ ~link
CallsMqttLoop(wifi, link) == wifi

\* mqttReconnect() without its first early return
ConnectsNowAnyHost(c, link, t, last) == ~link /\ ReconnectDue(t, last)

\* a client that gives up after its first attempt
ConnectsNowFirstOnly(c, link, t, last) ==
  /\ c.mqttSrv # Empty
  /\ ~link
  /\ last = U32(0)
  /\ ReconnectDue(t, last)

\* mqttReconnect(): the three early returns; TRUE when mqtt.connect() is called
ConnectsNow(c, link, t, last) ==
  /\ c.mqttSrv # Empty
  /\ ~link
  /\ ReconnectDue(t, last)

\* mqtt.connect(id, user, pass) when a user is configured, mqtt.connect(id) otherwise
WithCredentials(c) == c.mqttUser # Empty

\* ------------------------------------------------------------------------
\* the bus transaction: spiTransmit() / spiReceive()
\* ------------------------------------------------------------------------
\* a receiver that counts every exchange
CountsAlways(r, buf) == TRUE

\* whether this exchange counts, flashes the LED and may be published
Counts(r, buf) == r = "TX" \/ HasData(buf)

\* an empty response reported as a failure
SpiResultFailOnEmpty(r, buf) == IF r = "TX" THEN 0 ELSE IF HasData(buf) THEN 0 ELSE 2

\* lastSpiResult = 0 (sender); 0 with data, 1 when empty (receiver)
SpiResult(r, buf) == IF r = "TX" THEN 0 ELSE IF HasData(buf) THEN 0 ELSE 1

\* a counter that starts over when nothing was received
NextCountOrReset(counts, n) == IF counts THEN n + 1 ELSE 0

\* txCount++ / rxCount++
NextCount(counts, n) == IF counts THEN n + 1 ELSE n

\* an exchange that does not count switching the LED off
LedClearedWhenIdle(counts, on) == counts

\* digitalWrite(LED_PIN, LOW); ledOn = true; in the branch that counts only
LedAfterTransfer(counts, on) == IF counts THEN TRUE ELSE on

\* a publish that does not ask mqtt.connected()
PublishesUnchecked(r, buf, link) == Counts(r, buf)

\* if (mqtt.connected()) mqtt.publish(...)
Publishes(r, buf, link) == Counts(r, buf) /\ link

Message(r, count, hex, ascii) ==
  IF r = "TX" THEN TxMessage(count) ELSE RxMessage(count, hex, ascii)

\* ------------------------------------------------------------------------
\* the Control Surface
\* ------------------------------------------------------------------------
Requests ==
  {[path |-> p] : p \in {"none", "/", "/config", "/api/status", "/reboot", "/other"}}
  \cup {[path |-> "/save", form |-> f] : f \in Forms}

\* handleRoot (also the not-found handler): the config page in AP mode
RootPage(ap) == IF ap THEN "config" ELSE "dashboard"

PageOf(path, ap) ==
  CASE path = "none"        -> "none"
    [] path = "/config"     -> "config"
    [] path = "/api/status" -> "status"
    [] OTHER                -> RootPage(ap)

\* handleStatus: the "spi" field
SpiStatus(r, res) ==
  IF r = "TX"
  THEN IF res = 0 THEN "OK" ELSE IF res < 0 THEN "IDLE" ELSE "FAIL"
  ELSE CASE res = 0 -> "DATA" [] res = 1 -> "EMPTY" [] res = 2 -> "FAIL" [] OTHER -> "IDLE"

\* ------------------------------------------------------------------------
\* loop(): one scheduler step
\* ------------------------------------------------------------------------
\* time between the end of one step and the telemetry section of the next
\* (the host's call interval plus server.handleClient())
WrapGap == Sub32(U32(0), U32(BOOT_DELAY_MS + 30))

Gaps(r) ==
  { U32(0), U32(LED_FLASH_MS(r) - 1), U32(LED_FLASH_MS(r)),
    U32(TX_INTERVAL - 1), U32(TX_INTERVAL), U32(MQTT_RECONNECT_MS - 1),
    U32(AP_TIMEOUT_MS), WrapGap }

\* time the blocking call mqtt.connect() takes; the other reads of millis()
\* within one step are taken to return the same millisecond
ConnectTimes == {U32(0), U32(MaxConnectMs)}

\* handlers that restart at once
HandlerNoDelay(path) == 0

\* the fixed delay() of the handler serving `path`, in ms
HandlerDelayMs(path) ==
  CASE path = "/save"   -> SAVE_DELAY_MS
    [] path = "/reboot" -> REBOOT_DELAY_MS
    [] OTHER            -> 0

\* ESP.restart(): the process ends, the globals are re-initialised, millis() restarts
Restart ==
  /\ RamReset
  /\ phase' = "boot"
  /\ now' = U32(0)
  /\ since' = SinceReset

\* handleSave(): overwrite, persist, delay(3000), restart
HandleSave(form) ==
  /\ nvs' = saveConfig(ApplyForm(cfg, form))
  /\ Restart
  /\ ev' = [EvNone EXCEPT !.act = "loop", !.req = "/save", !.restart = "save",
                          !.delayUs = HandlerDelayMs("/save") * 1000,
                          !.txElapsed = Sub32(now, lastTx),
                          !.form = FormArgs(form)]

\* handleReboot(): acknowledge, delay(1000), restart
HandleReboot ==
  /\ nvs' = nvs
  /\ Restart
  /\ ev' = [EvNone EXCEPT !.act = "loop", !.req = "/reboot", !.restart = "reboot",
                          !.delayUs = HandlerDelayMs("/reboot") * 1000,
                          !.txElapsed = Sub32(now, lastTx)]

\* the attempt time marked only when the connect succeeds
ReconnectMarkOnSuccess(conn, ok, t, last) == IF conn /\ ok THEN t ELSE last

\* mqttReconnect(): lastMqttReconnect = millis() before the connect call,
\* whatever the call answers
ReconnectMark(conn, ok, t, last) == IF conn THEN t ELSE last

\* step 3 of loop() at millisecond t: the MQTT section.  `accept` is the
\* broker's answer to mqtt.connect(), `op` the time that call takes
MqttStage(t, accept, op) ==
  LET reconn == CallsReconnect(wifiConnected, mqttLink)
      conn   == reconn /\ ConnectsNow(cfg, mqttLink, t, lastMqttReconnect)
  IN  [reconn |-> reconn,
       conn   |-> conn,
       loop   |-> CallsMqttLoop(wifiConnected, mqttLink),
       link   |-> IF conn THEN accept ELSE mqttLink,
       flag   |-> IF conn /\ role = "TX" THEN accept ELSE mqttConnected,
       lastRc |-> ReconnectMark(conn, accept, t, lastMqttReconnect),
       t      |-> IF conn THEN Add32(t, op) ELSE t]

\* spiTransmit() / spiReceive() with lastTx marked at t: `resp` is the response
\* clocked in, `link` what mqtt.connected() reports
Transfer(t, resp, link) ==
  LET rx     == role = "RX"
      counts == Counts(role, resp)
      pub    == Publishes(role, resp, link)
      len    == IF rx THEN RxLen(resp) ELSE rxLen
      hex    == IF rx THEN RenderHex(resp, HasData(resp), len) ELSE lastRxData
      ascii  == IF rx THEN RenderAscii(resp, HasData(resp), len) ELSE lastRxAscii
      count  == NextCount(counts, txCount)
  IN  [due |-> TRUE, counts |-> counts, pub |-> pub,
       res |-> SpiResult(role, resp), count |-> count,
       buf |-> IF rx THEN resp ELSE rxBuf, len |-> len, hex |-> hex, ascii |-> ascii,
       on  |-> LedAfterTransfer(counts, ledOn),
       off |-> IF counts THEN ArmDeadline(role, t) ELSE lastLedOff,
       msg |-> IF pub THEN Message(role, count, hex, ascii) ELSE Empty,
       mark |-> t]

\* a loop() that moves the mark on every pass
TxMarkAlways(due, t, last) == t

\* loop(): lastTx = millis() when the transaction is due, and only then
TxMark(due, t, last) == IF due THEN t ELSE last

\* a loop() that tests the AP timeout before the transaction
TxStageSkippedOnTimeout(t, resp, link) ==
  IF TxDue(t, lastTx) /\ ~ApExpired(apMode, t, apStartTime)
  THEN [Transfer(t, resp, link) EXCEPT !.mark = TxMark(TRUE, t, lastTx)]
  ELSE [due |-> FALSE, counts |-> FALSE, pub |-> FALSE,
        res |-> lastSpiResult, count |-> txCount,
        buf |-> rxBuf, len |-> rxLen, hex |-> lastRxData, ascii |-> lastRxAscii,
        on  |-> ledOn, off |-> lastLedOff, msg |-> Empty,
        mark |-> TxMark(FALSE, t, lastTx)]

\* step 4 of loop() at millisecond t
TxStage(t, resp, link) ==
  IF TxDue(t, lastTx)
  THEN [Transfer(t, resp, link) EXCEPT !.mark = TxMark(TRUE, t, lastTx)]
  ELSE [due |-> FALSE, counts |-> FALSE, pub |-> FALSE,
        res |-> lastSpiResult, count |-> txCount,
        buf |-> rxBuf, len |-> rxLen, hex |-> lastRxData, ascii |-> lastRxAscii,
        on  |-> ledOn, off |-> lastLedOff, msg |-> Empty,
        mark |-> TxMark(FALSE, t, lastTx)]

\* steps 3 to 6 of loop(), after server.handleClient() served `path` and returned;
\* `resps` are the responses the radio module may clock back
SteadyOn(gap, path, op, resps) ==
  \E t0 \in {Add32(now, gap)} :
  \E accept \in (IF CallsReconnect(wifiConnected, mqttLink)
                    /\ ConnectsNow(cfg, mqttLink, t0, lastMqttReconnect)
                 THEN BOOLEAN ELSE {FALSE}) :
  \E m \in {MqttStage(t0, accept, op)} :
  \E resp \in (IF TxDue(m.t, lastTx) /\ role = "RX" THEN resps ELSE {rxBuf}) :
  \E x \in {TxStage(m.t, resp, m.link)} :
  \E expired \in {LedExpired(x.on, m.t, x.off)} :
  \E apx \in {ApExpired(apMode, m.t, apStartTime)} :
  \E s0 \in {Elapse(since, gap)} :
  \E s1 \in {Elapse([s0 EXCEPT !.conn = IF m.conn THEN WZero ELSE @,
                               !.tried = @ \/ m.conn],
                    Sub32(m.t, t0))} :
  \E s2 \in {[s1 EXCEPT !.tx = IF x.due THEN WZero ELSE @,
                        !.arm = IF x.counts THEN WZero ELSE @]} :
    /\ ev' = [EvNone EXCEPT
                !.act = "loop", !.req = path,
                !.restart = IF apx THEN "aptimeout" ELSE "none",
                !.delayUs = HandlerDelayMs(path) * 1000
                            + (IF x.due THEN CS_SETTLE_US ELSE 0),
                !.wifi = wifiConnected,
                !.hostEmpty = (cfg.mqttSrv = Empty),
                !.linkBefore = mqttLink,
                !.lastRcBefore = lastMqttReconnect,
                !.reconnCalled = m.reconn,
                !.connectCall = m.conn,
                !.connectHost = IF m.conn THEN cfg.mqttSrv ELSE Empty,
                !.withCreds = m.conn /\ WithCredentials(cfg),
                !.connectAt = t0,
                !.connSpan = s0.conn,
                !.connGap = IF m.conn /\ since.tried THEN s0.conn ELSE WUnset,
                !.loopCalled = m.loop,
                !.txElapsed = Sub32(m.t, lastTx),
                !.txSpan = s1.tx,
                !.txn = IF x.due THEN 1 ELSE 0,
                !.countDelta = x.count - txCount,
                !.markGap = IF x.due /\ lastSpiResult # -1 THEN s1.tx ELSE WUnset,
                !.armed = x.counts, !.armAt = m.t,
                !.ledBefore = ledOn,
                !.ledWasOn = x.on,
                !.ledCheckAt = m.t, !.ledOffNow = expired,
                !.armSpan = s2.arm,
                !.published = x.pub, !.pubMsg = x.msg,
                !.pubLink = x.pub /\ m.link,
                !.apSpan = s2.ap]
    /\ nvs' = nvs
    /\ IF apx
       THEN Restart
       ELSE /\ mqttLink' = m.link
            /\ mqttConnected' = m.flag
            /\ lastMqttReconnect' = m.lastRc
            /\ lastTx' = x.mark
            /\ lastSpiResult' = x.res
            /\ txCount' = x.count
            /\ rxBuf' = x.buf
            /\ rxLen' = x.len
            /\ lastRxData' = x.hex
            /\ lastRxAscii' = x.ascii
            /\ lastLedOff' = x.off
            /\ ledOn' = IF expired THEN FALSE ELSE x.on
            /\ now' = m.t
            /\ since' = s2
            /\ UNCHANGED <<phase, cfg, apMode, wifiConnected, apStartTime>>

Steady(gap, path, op) == SteadyOn(gap, path, op, Responses)

Step(gap, req) ==
  /\ phase = "run"
  /\ role' = role
  /\ CASE req.path = "/save"   -> HandleSave(req.form)
       [] req.path = "/reboot" -> HandleReboot
       [] OTHER                -> \E op \in ConnectTimes : Steady(gap, req.path, op)

\* a device that answers the loss of its link by opening the access point
LinkDropFallsBack ==
  /\ phase = "run"
  /\ mqttLink
  /\ mqttLink' = FALSE
  /\ wifiConnected' = FALSE
  /\ apMode' = TRUE
  /\ apStartTime' = now
  /\ ev' = [EvNone EXCEPT !.act = "drop"]
  /\ UNCHANGED <<role, phase, nvs, cfg, mqttConnected,
                 txCount, lastTx, lastLedOff, lastMqttReconnect,
                 ledOn, lastSpiResult, rxBuf, rxLen, lastRxData, lastRxAscii,
                 now, steps, since>>

\* the broker or the network ends the telemetry connection
LinkDrop ==
  /\ phase = "run"
  /\ mqttLink
  /\ mqttLink' = FALSE
  /\ ev' = [EvNone EXCEPT !.act = "drop"]
  /\ UNCHANGED <<role, phase, nvs, cfg, apMode, wifiConnected, mqttConnected,
                 txCount, lastTx, lastLedOff, lastMqttReconnect, apStartTime,
                 ledOn, lastSpiResult, rxBuf, rxLen, lastRxData, lastRxAscii,
                 now, steps, since>>

\* the steps explored: every gap with no request pending, and every request in
\* a step invoked most of a transaction period after the previous one
ReqGaps == {U32(TX_INTERVAL - 1)}

Loop(gap, req) ==
  /\ steps < MaxSteps
  /\ steps' = steps + 1
  /\ Step(gap, req)

Inputs(r) ==
  {<<g, [path |-> "none"]>> : g \in Gaps(r)}
  \cup {<<g, q>> : g \in ReqGaps, q \in Requests \ {[path |-> "none"]}}

\* ------------------------------------------------------------------------
\* a device left alone in Local mode: the link never comes up within the wait,
\* nobody posts /save or requests /reboot, and loop() is invoked again and again
\* while the millisecond counter advances
\* ------------------------------------------------------------------------
LiveGaps == {U32(0), U32(60000), U32(AP_TIMEOUT_MS)}

LiveRequests == {[path |-> p] : p \in {"none", "/", "/api/status"}}

LiveInit == Init /\ nvs \in {NvsBlank, NvsProvisioned}

LiveSetup == Setup(WIFI_CONNECT_MS + 1)

LiveLoop(gap, req) ==
  /\ steps' = steps
  /\ Step(gap, req)

\* a step in which the counter has advanced since the previous one
LiveAdvance == \E g \in LiveGaps \ {U32(0)} : LiveLoop(g, [path |-> "none"])

LiveNext ==
  \/ LiveSetup
  \/ \E g \in LiveGaps, q \in LiveRequests : LiveLoop(g, q)

LiveSpec ==
  /\ LiveInit
  /\ [][LiveNext]_vars
  /\ WF_vars(LiveSetup)
  /\ WF_vars(LiveAdvance)

\* ------------------------------------------------------------------------
\* the receiver polling the bus: a provisioned receiver in Managed mode whose
\* every step finds a transaction due
\* ------------------------------------------------------------------------
BusInit == Init /\ role = "RX" /\ nvs = NvsProvisioned

BusSetup == Setup(0)

\* a transaction period, or a reconnect backoff, between two steps
BusGaps == {U32(TX_INTERVAL), U32(MQTT_RECONNECT_MS)}

BusReceive(gap, resp) ==
  /\ steps < MaxSteps
  /\ steps' = steps + 1
  /\ phase = "run"
  /\ role' = role
  /\ \E op \in ConnectTimes : SteadyOn(gap, "none", op, {resp})

BusNext ==
  \/ BusSetup
  \/ \E gap \in BusGaps, resp \in Buffers : BusReceive(gap, resp)

BusSpec == BusInit /\ [][BusNext]_vars

\* ------------------------------------------------------------------------
\* the configuration path alone: boot, POST /save, restart, reload
\* ------------------------------------------------------------------------
CfgInit == Init

CfgSetup == \E up \in {0, WIFI_CONNECT_MS + 1} : Setup(up)

CfgSave(form) ==
  /\ steps < MaxSteps
  /\ steps' = steps + 1
  /\ phase = "run"
  /\ role' = role
  /\ HandleSave(form)

CfgNext ==
  \/ CfgSetup
  \/ \E form \in CfgForms : CfgSave(form)

CfgSpec == CfgInit /\ [][CfgNext]_vars

\* ------------------------------------------------------------------------
\* a provisioned device in Managed mode whose broker refuses the first
\* connects (at most MaxSteps of them, counted in `steps`) and accepts from
\* then on; loop() is invoked again and again while the link is down, and a
\* receiver is wired to a sender and clocks HELLO in
\* ------------------------------------------------------------------------
RetryInit == Init /\ nvs = NvsProvisioned

RetrySetup == Setup(0)

\* none, one ms less than the backoff, the backoff
RetryGaps == {U32(0), U32(MQTT_RECONNECT_MS - 1), U32(MQTT_RECONNECT_MS)}

RetryLoop(gap) ==
  /\ phase = "run"
  /\ ~mqttLink
  /\ role' = role
  /\ \E op \in ConnectTimes : SteadyOn(gap, "none", op, {Pad(HELLO_PAYLOAD)})
  /\ steps' = IF ev'.connectCall /\ ~mqttLink' THEN steps + 1 ELSE steps
  /\ steps' <= MaxSteps

\* a step in which the counter has advanced since the previous one
RetryAdvance == \E g \in RetryGaps \ {U32(0)} : RetryLoop(g)

RetryNext ==
  \/ RetrySetup
  \/ \E g \in RetryGaps : RetryLoop(g)

RetrySpec ==
  /\ RetryInit
  /\ [][RetryNext]_vars
  /\ WF_vars(RetrySetup)
  /\ WF_vars(RetryAdvance)

\* ------------------------------------------------------------------------
\* booting: the managed link comes up at any quarter of a second up to half a
\* second past the wait, or a millisecond off its limit; after setup() the
\* device runs loop() or is rebooted by the operator
\* ------------------------------------------------------------------------
BootUpTimes ==
  {(POLL_DELAY_MS \div 2) * k : k \in 0..((WIFI_CONNECT_MS \div POLL_DELAY_MS) * 2 + 1)}
  \cup {1, WIFI_CONNECT_MS - 1, WIFI_CONNECT_MS + 1}

BootSetup == \E upAt \in BootUpTimes : Setup(upAt)

BootLoop(req) ==
  /\ steps < MaxSteps
  /\ steps' = steps + 1
  /\ Step(U32(TX_INTERVAL), req)

BootNext ==
  \/ BootSetup
  \/ \E p \in {"none", "/reboot"} : BootLoop([path |-> p])

BootSpec == Init /\ [][BootNext]_vars

\* ------------------------------------------------------------------------
\* a provisioned device in Managed mode whose millisecond counter is about to
\* wrap: the first step is invoked a flash and a millisecond before 2^32
\* ------------------------------------------------------------------------
PulseInit == Init /\ nvs = NvsProvisioned

PulseSetup == Setup(0)

\* from the end of setup() to 2^32 - LED_FLASH_MS - 1
NearWrap(r) == Sub32(U32(0), U32(BOOT_DELAY_MS + LED_FLASH_MS(r) + 1))

PulseGaps(r) ==
  { U32(0), U32(LED_FLASH_MS(r) - 1), U32(LED_FLASH_MS(r)), U32(2 * LED_FLASH_MS(r)),
    U32(TX_INTERVAL), NearWrap(r) }

PulseLoop(gap) ==
  /\ steps < MaxSteps
  /\ steps' = steps + 1
  /\ Step(gap, [path |-> "none"])

PulseNext ==
  \/ PulseSetup
  \/ \E gap \in PulseGaps(role) : PulseLoop(gap)

PulseSpec == PulseInit /\ [][PulseNext]_vars

Next ==
  \/ \E upAt \in UpTimes : Setup(upAt)
  \/ \E in \in Inputs(role) : Loop(in[1], in[2])
  \/ LinkDrop

Spec == Init /\ [][Next]_vars

\* ------------------------------------------------------------------------
\* properties
\* ------------------------------------------------------------------------
\* a scheduler step that went past server.handleClient()
PastControlSurface == ev.act = "loop" /\ ev.restart \notin {"save", "reboot"}

\* C1: in every scheduler step a bus transaction is performed if and only if
\* millis() - lastTx >= 2000 at the check; then lastTx is set to the time of the
\* check and exactly one transaction is performed (the count never moves by more
\* than one); the marks of two consecutive transactions are at least 2000 ms apart.
C1_TransactionIffDue ==
  PastControlSurface =>
    /\ ev.txn \in {0, 1}
    /\ ev.countDelta \in {0, 1}
    /\ (ev.txn = 1) <=> Ge32(ev.txElapsed, U32(2000))
    /\ (ev.txn = 1 /\ ev.restart = "none") => lastTx = ev.ledCheckAt
    /\ (ev.txn = 0 /\ ev.restart = "none") => Sub32(now, lastTx) = ev.txElapsed
    /\ ev.markGap.set => WAtLeast(ev.markGap, 2000)

\* a second transaction exactly 2000 ms after the first one's mark
C1_Witness ==
  /\ PastControlSurface
  /\ ev.txn = 1
  /\ ev.markGap.set /\ ~ev.markGap.ovf /\ ev.markGap.v = U32(2000)

\* C2: a device that boots into Local mode and receives no save or reboot
\* request eventually performs the safety-timeout restart, and that restart never
\* happens before 300000 ms have elapsed since the activation of Local mode.
C2_LocalModeRestarts ==
  /\ [](phase = "run" /\ apMode => <>(ev.restart = "aptimeout"))
  /\ [](ev.restart = "aptimeout" =>
          /\ ev.apSpan.set
          /\ ev.apSpan.ovf \/ Gt32(ev.apSpan.v, U32(300000)))

\* the restart at 360000 ms: the check at exactly 300000 ms had let the device run
C2_Witness ==
  /\ ev.act = "loop" /\ ev.restart = "aptimeout"
  /\ phase = "boot"
  /\ ev.apSpan.set /\ ~ev.apSpan.ovf /\ ev.apSpan.v = U32(360000)

\* C3: setup ends in Managed mode exactly when an identity is configured and
\* the link has come up by the end of the 15000 ms wait; otherwise it ends in
\* Local mode with apStartTime the current time; with no identity configured no
\* managed attempt is made.
C3_Establish ==
  ev.act = "setup" =>
    /\ wifiConnected <=> (cfg.ssid # Empty /\ ev.upAt <= 15000)
    /\ apMode <=> ~wifiConnected
    /\ apMode => apStartTime = now
    /\ cfg.ssid = Empty => (~ev.wifiBegin /\ ev.waited = 0)
    /\ cfg.ssid # Empty => ev.wifiBegin

\* the link comes up at the very end of the wait, and the device is Managed
C3_Witness ==
  /\ ev.act = "setup"
  /\ cfg.ssid # Empty
  /\ ev.upAt = 15000 /\ ev.waited = 15000
  /\ wifiConnected /\ ~apMode

\* C4: once setup has completed exactly one of apMode and wifiConnected is true.
C4_OneLinkMode == phase = "run" => (apMode # wifiConnected)

\* a device that fell back to Local mode after the wait, some steps later
C4_Witness ==
  /\ phase = "run" /\ ev.act = "loop" /\ steps >= 2
  /\ cfg.ssid # Empty
  /\ apMode /\ ~wifiConnected

\* C5: two physical connect calls of one boot are at least 5000 ms apart, and
\* the attempt time is marked at the call whether the call succeeds or fails.
C5_ConnectSpacing ==
  ev.act = "loop" =>
    /\ ev.connGap.set => WAtLeast(ev.connGap, 5000)
    /\ (ev.connectCall /\ ev.restart = "none") => lastMqttReconnect = ev.connectAt

\* a retry exactly 5000 ms after a failed attempt
C5_Witness ==
  /\ ev.act = "loop" /\ ev.connectCall
  /\ ev.connGap.set /\ ~ev.connGap.ovf /\ ev.connGap.v = U32(5000)

\* C6: the reconnect is a no-op (no connect call, lastMqttReconnect unchanged)
\* when the endpoint host is empty or the link is already connected; no connect
\* call is made and nothing is published with an empty endpoint host.
C6_NoTelemetryWithoutHost ==
  /\ PastControlSurface =>
       /\ (ev.hostEmpty \/ ev.linkBefore) => ~ev.connectCall
       /\ ((ev.hostEmpty \/ ev.linkBefore) /\ ev.restart = "none")
            => lastMqttReconnect = ev.lastRcBefore
       /\ ev.connectCall => ev.connectHost # Empty
       /\ ev.published => ~ev.hostEmpty
  /\ (phase = "run" /\ cfg.mqttSrv = Empty) => ~mqttLink

\* Managed mode, no endpoint host, five seconds after the counter started: the
\* reconnect is invoked and does nothing, the transaction is not published
C6_Witness ==
  /\ PastControlSurface
  /\ ev.wifi /\ ev.hostEmpty
  /\ ev.reconnCalled /\ ~ev.connectCall
  /\ Ge32(ev.connectAt, U32(5000))
  /\ ev.txn = 1 /\ ev.countDelta = 1 /\ ~ev.published

\* C7 as stated: whenever the endpoint host is configured and the link is not
\* connected the reconnect is attempted, whatever the link mode, and no step
\* performs both the reconnect and the background work unit.
C7_Original ==
  PastControlSurface =>
    /\ (~ev.hostEmpty /\ ~ev.linkBefore) => ev.reconnCalled
    /\ ev.loopCalled => (ev.hostEmpty \/ ev.linkBefore)
    /\ ~(ev.connectCall /\ ev.loopCalled)

\* C7 amended: the reconnect operation is invoked exactly in the steps taken in
\* Managed mode with the telemetry link not connected, and the background work
\* unit is given in every step taken in Managed mode (after the reconnect, when
\* there is one) and in no step taken in Local mode.
C7_ManagedOnly ==
  PastControlSurface =>
    /\ ev.reconnCalled <=> (ev.wifi /\ ~ev.linkBefore)
    /\ ev.loopCalled <=> ev.wifi
    /\ ev.connectCall => ev.reconnCalled

\* a Managed step that connects and then gives the background work unit
C7_Witness ==
  /\ PastControlSurface
  /\ ev.wifi /\ ~ev.hostEmpty /\ ~ev.linkBefore
  /\ ev.connectCall /\ ev.loopCalled /\ mqttLink

C9_ArmedStaysOn == (ev.act = "loop" /\ ev.armed) => ~ev.ledOffNow

\* the true elapsed time w is more than n
WMoreThan(w, n) == w.set /\ (w.ovf \/ Gt32(w.v, U32(n)))

\* the four timed checks against the elapsed time that is not reduced modulo 2^32
TxCheckExact == ~ev.txSpan.ovf => ((ev.txn = 1) <=> WAtLeast(ev.txSpan, 2000))
ReconnectCheckExact ==
  (ev.reconnCalled /\ ~ev.hostEmpty /\ ~ev.connSpan.ovf)
    => (ev.connectCall <=> WAtLeast(ev.connSpan, 5000))
LedCheckExact ==
  (ev.ledWasOn /\ ~ev.armSpan.ovf)
    => (ev.ledOffNow <=> WAtLeast(ev.armSpan, LED_FLASH_MS(role)))
ApCheckExact ==
  (ev.apSpan.set /\ ~ev.apSpan.ovf)
    => ((ev.restart = "aptimeout") <=> WMoreThan(ev.apSpan, 300000))

\* C10: each timed check of a step (transaction interval, reconnect backoff,
\* indicator-off deadline, access-point window) decides as it would with an
\* unbounded clock whenever the true elapsed time since its mark is below 2^32.
C10_WrapSafeChecks ==
  PastControlSurface =>
    /\ TxCheckExact
    /\ ReconnectCheckExact
    /\ LedCheckExact
    /\ ApCheckExact

\* the three checks computed as a difference of counter readings
C10_DifferenceChecks ==
  PastControlSurface => (TxCheckExact /\ ReconnectCheckExact /\ ApCheckExact)

\* C11: the transaction counter never decreases except through a restart, it
\* changes only by +1 and only in a step that performs a bus transaction, and a
\* step that serves a request and returns (GET /, /config, /api/status, an
\* unknown path) never resets it.
C11_CounterMonotone ==
  [][ /\ txCount' # txCount =>
           \/ txCount' = txCount + 1 /\ ev'.act = "loop" /\ ev'.txn = 1
                /\ ev'.restart = "none"
           \/ txCount' = 0 /\ phase' = "boot"
                /\ ev'.restart \in {"save", "reboot", "aptimeout"}
      /\ (ev'.act = "loop" /\ ev'.restart = "none") => txCount' >= txCount
      /\ ev'.act \in {"setup", "drop"} => txCount' = txCount ]_vars

\* a GET /api/status served in a step after the first transaction: the count stays
C11_Witness ==
  /\ ev.act = "loop" /\ ev.req = "/api/status" /\ ev.restart = "none"
  /\ ev.txn = 0
  /\ txCount = 1

\* a step taken in Managed mode that performs a transaction with the telemetry
\* link connected
ConnectedTransaction ==
  PastControlSurface /\ ev.wifi /\ mqttLink /\ ev.txn = 1

\* some byte of the captured response is neither 0x00 nor 0xFF
Captured == \E i \in 1..32 : rxBuf[i] \notin {0, 255}

C13_NeverFailure ==
  /\ [](/\ role = "TX" => lastSpiResult \in {-1, 0}
        /\ role = "RX" => lastSpiResult \in {-1, 0, 1}
        /\ SpiStatus(role, lastSpiResult) # "FAIL"
        /\ (lastSpiResult = -1) <=> (SpiStatus(role, lastSpiResult) = "IDLE"))
  /\ [][(lastSpiResult # -1 /\ lastSpiResult' = -1)
          => (phase' = "boot" /\ ev'.restart # "none")]_vars

\* the receiver after a transaction with an empty response, asked for its status
C13_Witness ==
  /\ role = "RX" /\ phase = "run"
  /\ lastSpiResult = 1
  /\ ev.act = "loop" /\ ev.req = "/api/status"
  /\ SpiStatus(role, lastSpiResult) = "EMPTY"

\* C17: a status message is published only inside a bus transaction and only
\* with the telemetry link connected at that moment: the sender publishes on
\* every transaction performed while connected, the receiver on every transaction
\* with data performed while connected, and nothing is published while the link
\* is not connected or for an empty response.
C17_PublishOnlyConnected ==
  /\ ev.published => (ev.act = "loop" /\ ev.txn = 1 /\ ev.pubLink /\ ev.pubMsg # << >>)
  /\ (PastControlSurface /\ ev.txn = 1 /\ ev.restart = "none") =>
       /\ ~mqttLink => ~ev.published
       /\ (role = "TX" /\ mqttLink) => ev.published
       /\ (role = "RX" /\ mqttLink /\ Captured) => ev.published
       /\ (role = "RX" /\ ~Captured) => ~ev.published
  /\ ev.txn = 0 => ~ev.published

\* the sender's first transaction, published as {"tx":1,"msg":"HELLO"}
C17_Witness ==
  /\ PastControlSurface /\ role = "TX"
  /\ ev.txn = 1 /\ mqttLink /\ ev.published
  /\ ev.pubMsg = <<123, 34, 116, 120, 34, 58, 49, 44, 34, 109, 115, 103, 34, 58, 34,
                   72, 69, 76, 76, 79, 34, 125>>

\* the (1-based) positions of the response bytes that are neither 0x00 nor 0xFF
DataPositions == {i \in 1..32 : rxBuf[i] \notin {0, 255}}

\* a receiver step that has just performed a transaction
Received == ev.act = "loop" /\ ev.txn = 1 /\ role = "RX" /\ ev.restart = "none"

\* C14: the receiver classifies a response as Success-with-data if and only if
\* some byte is neither 0x00 nor 0xFF, and the length is then the index of the
\* last such byte plus one (sentinel bytes before it count), 0 otherwise.
C14_Classification ==
  Received =>
    /\ (lastSpiResult = 0) <=> (DataPositions # {})
    /\ (lastSpiResult = 1) <=> (DataPositions = {})
    /\ DataPositions # {} =>
         (rxLen \in DataPositions /\ \A i \in DataPositions : i <= rxLen)
    /\ DataPositions = {} => rxLen = 0

\* one byte at index 3 after three 0xFF bytes: data, length 4
C14_Witness ==
  /\ Received
  /\ DataPositions = {4}
  /\ rxBuf[1] = 255 /\ rxBuf[2] = 255 /\ rxBuf[3] = 255
  /\ lastSpiResult = 0 /\ rxLen = 4

\* C15: after a receiver transaction whose response holds only 0x00/0xFF bytes
\* the result is Success-empty and the hex and ascii strings are empty whatever
\* the previous transaction captured, and the transaction touches neither the
\* counter nor the indicator nor the telemetry link.
C15_EmptyTransaction ==
  [][(Received' /\ DataPositions' = {}) =>
       /\ lastSpiResult' = 1
       /\ rxLen' = 0
       /\ lastRxData' = << >>
       /\ lastRxAscii' = << >>
       /\ txCount' = txCount
       /\ lastLedOff' = lastLedOff
       /\ ledOn' = (ledOn /\ ~ev'.ledOffNow)
       /\ ~ev'.armed
       /\ ~ev'.published]_vars

\* an empty response right after a transaction that had captured data and was
\* published: the strings are empty again, the count is still 1
C15_Witness ==
  /\ Received /\ DataPositions = {}
  /\ rxBuf[4] = 255
  /\ txCount = 1 /\ mqttLink
  /\ lastSpiResult = 1 /\ lastRxData = << >> /\ lastRxAscii = << >>

\* the sixteen uppercase hexadecimal digits
HexDigits == <<48, 49, 50, 51, 52, 53, 54, 55, 56, 57, 65, 66, 67, 68, 69, 70>>

\* C16: for a response classified Success-with-data with length L the hex string
\* is the bytes 0..L-1 as two uppercase hexadecimal digits each, separated by
\* single spaces, with no trailing space (3L-1 characters), and the ascii string
\* has L characters, a byte in 0x20..0x7E as itself and any other as '.'; the
\* bytes 48 45 4C 4C 4F give "48 45 4C 4C 4F" and "HELLO".
C16_Rendering ==
  (Received /\ lastSpiResult = 0) =>
    /\ rxLen \in 1..32
    /\ Len(lastRxData) = 3 * rxLen - 1
    /\ Len(lastRxAscii) = rxLen
    /\ \A i \in 1..rxLen :
         /\ lastRxData[3 * i - 2] = HexDigits[(rxBuf[i] \div 16) + 1]
         /\ lastRxData[3 * i - 1] = HexDigits[(rxBuf[i] % 16) + 1]
         /\ i < rxLen => lastRxData[3 * i] = 32
         /\ lastRxAscii[i] = (IF rxBuf[i] >= 32 /\ rxBuf[i] <= 126 THEN rxBuf[i] ELSE 46)
    /\ (rxLen = 5 /\ \A i \in 1..5 : rxBuf[i] = <<72, 69, 76, 76, 79>>[i]) =>
         /\ lastRxData = <<52, 56, 32, 52, 53, 32, 52, 67, 32, 52, 67, 32, 52, 70>>
         /\ lastRxAscii = <<72, 69, 76, 76, 79>>

\* 0x7F at the last index after 31 bytes of 0xFF: 95 characters of hex ending in
\* "7F", 32 dots
C16_Witness ==
  /\ Received /\ lastSpiResult = 0
  /\ rxLen = 32 /\ rxBuf[32] = 127 /\ rxBuf[1] = 255
  /\ Len(lastRxData) = 95
  /\ lastRxData[1] = 70 /\ lastRxData[94] = 55 /\ lastRxData[95] = 70
  /\ lastRxAscii = [i \in 1..32 |-> 46]

\* the string fields of DeviceConfig by the form field that sets them
StringField ==
  [ssid |-> "ssid", pass |-> "pass", ms |-> "mqttSrv", mt |-> "mqttTopic",
   mu |-> "mqttUser", mw |-> "mqttPass"]

\* t is s cut to at most n characters
CutTo(t, s, n) ==
  /\ Len(t) = (IF Len(s) < n THEN Len(s) ELSE n)
  /\ \A i \in 1..Len(t) : t[i] = s[i]

\* C18: POST /save overwrites exactly the DeviceConfig fields whose form field is
\* present (a string up to the bound of its buffer, the port by the number read
\* from mp) and leaves every absent field as it was; it always persists the whole
\* DeviceConfig and restarts, so nothing of the scheduler step runs on the
\* modified in-memory config, which is gone with the restart.
C18_SaveOverwritesPresent ==
  [][ev'.restart = "save" =>
       /\ \A k \in DOMAIN StringField :
            /\ ev'.form[k] = << >> => nvs'[StringField[k]] = <<cfg[StringField[k]]>>
            /\ ev'.form[k] # << >> =>
                 /\ Len(nvs'[StringField[k]]) = 1
                 /\ CutTo(nvs'[StringField[k]][1], ev'.form[k][1],
                          FieldSize(StringField[k]) - 1)
       /\ ev'.form.mp = << >> => nvs'.mqttPort = <<cfg.mqttPort>>
       /\ ev'.form.mp # << >> => nvs'.mqttPort = <<ToU16(ToInt(ev'.form.mp[1]))>>
       /\ ev'.form.mp = <<Str8883>> => nvs'.mqttPort = <<8883>>
       /\ phase' = "boot"
       /\ cfg' = CfgDefaults(role)
       /\ ev'.delayUs = 3000000
       /\ ev'.txn = 0 /\ ~ev'.reconnCalled /\ ~ev'.loopCalled /\ ~ev'.published
    ]_vars

\* a save that carries only mp on a provisioned device: the port is stored, the
\* credentials already held are stored again unchanged
C18_Witness ==
  /\ ev.restart = "save"
  /\ ev.form.mp = <<Str8883>> /\ ev.form.ssid = << >> /\ ev.form.mt = << >>
  /\ nvs.mqttPort = <<8883>>
  /\ nvs.ssid = <<StrNet>> /\ nvs.mqttSrv = <<StrMq>>
  /\ phase = "boot"

\* a store written by saveConfig(): every key is present
Saved == \A k \in DOMAIN nvs : nvs[k] # << >>

\* C19: a DeviceConfig saved to the store and reloaded at the next start is
\* identical field by field, strings (empty ones included) and port, for both
\* roles.
C19_RoundTrip ==
  (phase = "run" /\ Saved) => \A k \in DOMAIN nvs : cfg[k] = nvs[k][1]

\* C19, the part that holds: every field but a receiver's empty topic
C19_RoundTripButEmptyTopic ==
  (phase = "run" /\ Saved) =>
    \A k \in DOMAIN nvs :
      (k = "mqttTopic" /\ role = "RX" /\ nvs[k][1] = Empty) \/ cfg[k] = nvs[k][1]

\* C19, scenario C: the saved port 8883 is the port after restart and reload
C19_PortWitness ==
  /\ phase = "run" /\ Saved
  /\ nvs.mqttPort = <<8883>> /\ cfg.mqttPort = 8883

\* the text of a decimal number
IsNumber(s) == s # Empty /\ \A i \in 1..Len(s) : s[i] >= 48 /\ s[i] <= 57

\* C20: a POST /save whose mp field is not a number stores the baseline port
\* 1883, and a store with no port loads as 1883.
C20_UnparsablePortDefaults ==
  /\ (ev.restart = "save" /\ ev.form.mp # << >> /\ ~IsNumber(ev.form.mp[1])) =>
       nvs.mqttPort = <<1883>>
  /\ (phase = "run" /\ nvs.mqttPort = << >>) => cfg.mqttPort = 1883

\* C20, the part that holds: a store with no port loads as 1883
C20_MissingStoredPort ==
  (phase = "run" /\ nvs.mqttPort = << >>) => cfg.mqttPort = 1883

\* a device started on a blank store
C20_MissingWitness ==
  phase = "run" /\ nvs.mqttPort = << >> /\ cfg.mqttPort = 1883

\* C21: the indicator goes from on to off only by the indicator check of a
\* scheduler step (a restart re-initialises it with everything else), never by a
\* transaction, a reconnect, a dropped link or a handler that returns; a
\* transaction that counts sets it on with the deadline now + duration, also when
\* it is already on, and the one deadline changes in no other way.
C21_OffOnlyInCheck ==
  [][ /\ (ledOn /\ ~ledOn') =>
           /\ ev'.act = "loop"
           /\ ev'.ledOffNow \/ ev'.restart # "none"
      /\ (ev'.act = "loop" /\ ev'.restart = "none") =>
           /\ ev'.armed =>
                /\ lastLedOff' = Add32(ev'.armAt, U32(IF role = "TX" THEN 50 ELSE 80))
                /\ ledOn' = ~ev'.ledOffNow
           /\ ~ev'.armed =>
                /\ lastLedOff' = lastLedOff
                /\ ledOn' = (ledOn /\ ~ev'.ledOffNow)
           /\ ev'.ledOffNow => (ev'.armed \/ ledOn)
      /\ ev'.act \in {"setup", "drop"} =>
           (ledOn' = ledOn /\ lastLedOff' = lastLedOff)
    ]_vars

\* a transaction re-arms an indicator that is still on: the deadline moves to
\* the new one
C21_Witness ==
  /\ ev.act = "loop" /\ ev.restart = "none"
  /\ ev.ledBefore /\ ev.armed
  /\ ledOn
  /\ lastLedOff = Add32(now, U32(IF role = "TX" THEN 50 ELSE 80))

\* C22: in Managed mode with a configured endpoint and the link down, a step
\* calls connect exactly when 5000 ms or more have passed since the previous
\* attempt (since the reset before the first), whatever the number of refused
\* attempts; a refused connect restarts nothing and leaves the device running;
\* and with a broker that accepts after finitely many refusals the link is
\* eventually connected.
C22_RetriesUntilConnected ==
  /\ [][(ev'.act = "loop" /\ ev'.wifi /\ ~ev'.hostEmpty /\ ~ev'.linkBefore) =>
          /\ ev'.connectCall <=> WAtLeast(ev'.connSpan, 5000)
          /\ (ev'.connectCall /\ ~mqttLink') =>
               /\ phase' = "run" /\ ev'.restart = "none"
               /\ lastMqttReconnect' = ev'.connectAt
               /\ wifiConnected' /\ cfg' = cfg
       ]_vars
  /\ <>mqttLink

\* the link comes up at the attempt that follows MaxSteps refused ones, made
\* exactly 5000 ms (plus the time the refused call took) after the previous one
C22_Witness ==
  /\ mqttLink /\ steps = MaxSteps
  /\ ev.connectCall
  /\ ev.connGap.set /\ ~ev.connGap.ovf
  /\ Ge32(ev.connGap.v, U32(5000)) /\ ~Gt32(ev.connGap.v, U32(5000 + MaxConnectMs))

\* C23: one invocation of loop() runs Control Surface, telemetry, transaction,
\* indicator check, safety-timeout check in this order: a /save or /reboot
\* restarts before any of the later activities runs; the transaction publishes
\* on the link as the telemetry section of the same invocation left it; the
\* indicator check sees the deadline the transaction of the same invocation
\* set; and an invocation that ends in the safety restart has run its due
\* transaction (result, count, indicator) first.
C23_FixedOrder ==
  [][ev'.act = "loop" =>
       /\ ev'.restart \in {"save", "reboot"} =>
            /\ ev'.txn = 0 /\ ev'.countDelta = 0
            /\ ~ev'.reconnCalled /\ ~ev'.connectCall /\ ~ev'.loopCalled
            /\ ~ev'.armed /\ ~ev'.ledOffNow /\ ~ev'.published
       /\ ev'.restart \in {"none", "aptimeout"} =>
            /\ ev'.txn = (IF Ge32(ev'.txElapsed, U32(2000)) THEN 1 ELSE 0)
            /\ ev'.armed => (ev'.txn = 1 /\ ev'.countDelta = 1)
            /\ ev'.published => ev'.armed
            /\ ev'.ledOffNow <=>
                 /\ ev'.armed \/ ledOn
                 /\ Ge32(ev'.ledCheckAt,
                         IF ev'.armed
                         THEN Add32(ev'.armAt, U32(IF role = "TX" THEN 50 ELSE 80))
                         ELSE lastLedOff)
       /\ ev'.restart = "none" =>
            (ev'.armed => (ev'.published <=> mqttLink'))
       /\ ev'.restart = "aptimeout" =>
            (apMode /\ phase' = "boot" /\ ~ev'.published)
    ]_vars

\* a sender's transaction is due in the invocation that finds the safety window
\* elapsed: it is counted and flashes before the restart
C23_Witness ==
  /\ ev.act = "loop" /\ ev.restart = "aptimeout"
  /\ role = "TX"
  /\ ev.txn = 1 /\ ev.countDelta = 1 /\ ev.armed
  /\ phase = "boot" /\ txCount = 0

\* a /save served while a transaction is due: the device restarts, no
\* transaction runs
C23_SaveWitness ==
  /\ ev.restart = "save"
  /\ Ge32(ev.txElapsed, U32(2000))
  /\ ev.txn = 0
  /\ phase = "boot"

\* a connect accepted in the telemetry section and the transaction of the same
\* invocation published on it
C23_TelemetryWitness ==
  /\ ev.act = "loop" /\ ev.connectCall /\ ~ev.linkBefore
  /\ mqttLink /\ ev.published

\* C24: a scheduler step invoked in Local mode restarts the device exactly when
\* 300000 ms or more have elapsed since the activation of Local mode; in
\* particular the step invoked at exactly 300000 ms restarts.
C24_WindowInclusive ==
  (PastControlSurface /\ ev.apSpan.set /\ ~ev.apSpan.ovf) =>
    ((ev.restart = "aptimeout") <=> WAtLeast(ev.apSpan, 300000))

\* C24, what the code does: the restart needs more than 300000 ms
C24_WindowExclusive ==
  (PastControlSurface /\ ev.apSpan.set /\ ~ev.apSpan.ovf) =>
    ((ev.restart = "aptimeout") <=> WMoreThan(ev.apSpan, 300000))

\* the step invoked at exactly 300000 ms returns and leaves the device in Local mode
C24_ExactlyAtWindow ==
  /\ ev.act = "loop" /\ ev.restart = "none"
  /\ apMode /\ phase = "run"
  /\ ev.apSpan.set /\ ~ev.apSpan.ovf /\ ev.apSpan.v = U32(300000)

\* the text {"rx":<count>,"hex":"<hex>","ascii":"<ascii>"}
FullRxJson(count, hex, ascii) ==
  <<123, 34, 114, 120, 34, 58>> \o Decimal(count)
  \o <<44, 34, 104, 101, 120, 34, 58, 34>> \o hex
  \o <<34, 44, 34, 97, 115, 99, 105, 105, 34, 58, 34>> \o ascii \o <<34, 125>>

\* C25: the message a receiver hands to publish after a transaction classified
\* Success-with-data is the complete JSON object with the full hex and ascii
\* renderings and the closing brace, for every classified length 1..32.
C25_CompleteMessage ==
  (Received /\ ev.published) =>
    /\ ev.pubMsg = FullRxJson(txCount, lastRxData, lastRxAscii)
    /\ ev.pubMsg[Len(ev.pubMsg)] = 125

\* C25, what the code does: the message is the first 127 characters of the
\* JSON text, which is all of it up to 25 bytes with a one-digit count
C25_FirstCharacters ==
  (Received /\ ev.published) =>
    LET full == FullRxJson(txCount, lastRxData, lastRxAscii)
    IN  /\ Len(full) = 26 + Len(Decimal(txCount)) + 4 * rxLen
        /\ Len(ev.pubMsg) = (IF Len(full) < 127 THEN Len(full) ELSE 127)
        /\ \A i \in 1..Len(ev.pubMsg) : ev.pubMsg[i] = full[i]

\* 25 bytes, count 1: 127 characters, the last one the closing brace
C25_LongestComplete ==
  /\ Received /\ ev.published
  /\ rxLen = 25 /\ txCount = 1
  /\ Len(ev.pubMsg) = 127 /\ ev.pubMsg[127] = 125

\* 26 bytes: the message stops inside the ascii rendering
C25_Truncated ==
  /\ Received /\ ev.published
  /\ rxLen = 26
  /\ Len(ev.pubMsg) = 127 /\ ev.pubMsg[127] # 125

\* C26: the wait for the managed link in setup() ends at the first poll (every
\* 500 ms) at which the link is up or 15000 ms have passed, so it lasts less than
\* 15500 ms; it is run once per boot, by setup(), and never by a scheduler step.
C26_BoundedWait ==
  /\ [](ev.act = "setup" =>
          /\ ev.waited >= 0 /\ ev.waited < 15000 + 500
          /\ ev.waited % 500 = 0
          /\ ~ev.wifiBegin => ev.waited = 0
          /\ (ev.wifiBegin /\ ev.upAt <= 15000) =>
               (ev.waited >= ev.upAt /\ ev.waited < ev.upAt + 500)
          /\ (ev.wifiBegin /\ ev.upAt > 15000) => ev.waited = 15000)
  /\ [](ev.act # "setup" => (~ev.wifiBegin /\ ev.waited = 0))
  /\ [][(ev'.wifiBegin \/ ev'.waited > 0) => (phase = "boot" /\ phase' = "run")]_vars
  /\ [][(phase = "run" /\ phase' = "run") =>
          (wifiConnected' = wifiConnected /\ apMode' = apMode)]_vars

\* a link that comes up 14999 ms after WiFi.begin() is seen at the poll at
\* 15000 ms, and the device runs in Managed mode
C26_Witness ==
  /\ ev.act = "setup" /\ ev.wifiBegin
  /\ ev.upAt = 14999 /\ ev.waited = 15000
  /\ wifiConnected /\ phase = "run"

\* the wait given up: the link was not there at 15000 ms
C26_TimeoutWitness ==
  /\ ev.act = "setup" /\ ev.wifiBegin
  /\ ev.upAt = 15001 /\ ev.waited = 15000
  /\ apMode /\ ~wifiConnected

\* C27: while the device runs, no scheduler step, no handler that returns and
\* no loss of the link changes apMode, wifiConnected or apStartTime: a device in
\* Managed mode stays in Managed mode, the Local-mode deadline is not moved by
\* requests; the three change only by a restart and the setup() that follows.
C27_ModeFixedAtBoot ==
  [][ /\ (phase = "run" /\ phase' = "run") =>
           /\ apMode' = apMode
           /\ wifiConnected' = wifiConnected
           /\ apStartTime' = apStartTime
      /\ (apMode' # apMode \/ wifiConnected' # wifiConnected
          \/ apStartTime' # apStartTime) =>
           (ev'.act = "setup" \/ ev'.restart # "none")
      /\ (phase = "run" /\ wifiConnected) =>
           (ev'.restart # "aptimeout" /\ (phase' = "run" => ~apMode'))
    ]_vars

\* the link of a device in Managed mode is lost: the device stays in Managed mode
C27_Witness ==
  /\ ev.act = "drop" /\ phase = "run"
  /\ ~mqttLink
  /\ wifiConnected /\ ~apMode /\ apStartTime = U32(0)

\* a request served in Local mode after the window began: the window still
\* counts from the activation
C27_OperatorWitness ==
  /\ ev.act = "loop" /\ ev.req = "/config" /\ ev.restart = "none"
  /\ apMode /\ ~wifiConnected
  /\ apStartTime = U32(500) /\ Gt32(now, U32(500))

\* C28: an indicator that was armed is off after the first scheduler step
\* invoked at or after its deadline, i.e. once the flash duration has passed
\* since the arming, whatever the counter read at the arming and whatever the
\* gap between the steps.
C28_OffAtDeadline ==
  (PastControlSurface /\ ev.ledWasOn /\ ~ev.armSpan.ovf
   /\ WAtLeast(ev.armSpan, IF role = "TX" THEN 50 ELSE 80)) =>
    (ev.ledOffNow /\ (ev.restart = "none" => ~ledOn))

\* armed at 2^32 - 51 with the deadline 2^32 - 1; the next step comes 100 ms
\* later, when the counter reads 49: the sender's indicator stays on
C28_StaysOnPastWrap ==
  /\ ev.act = "loop" /\ role = "TX"
  /\ ~ev.armed /\ ~ev.ledOffNow /\ ledOn
  /\ ev.armSpan = [set |-> TRUE, ovf |-> FALSE, v |-> U32(100)]
  /\ now = U32(49)
  /\ lastLedOff = Sub32(U32(0), U32(1))

\* the same step sequence away from the wraparound: off at the deadline
C28_OffWitness ==
  /\ ev.act = "loop" /\ ev.ledOffNow /\ ~ledOn /\ ~ev.armed
  /\ ev.armSpan.set /\ ~ev.armSpan.ovf /\ ev.armSpan.v = U32(LED_FLASH_MS(role))

\* the four timed checks of a step, from the values the step read
ReconnectEligible ==
  /\ wifiConnected /\ cfg.mqttSrv # Empty /\ ~mqttLink
  /\ ~Lt32(Sub32(ev'.connectAt, lastMqttReconnect), U32(5000))
TransactionEligible == ~Lt32(Sub32(ev'.armAt, lastTx), U32(2000))
IndicatorEligible == ledOn /\ ~Lt32(ev'.ledCheckAt, lastLedOff)
TimeoutEligible == apMode /\ Gt32(Sub32(ev'.ledCheckAt, apStartTime), U32(300000))

\* C29: a scheduler step with no request pending and none of its four timed
\* activities eligible waits for nothing and leaves the counter, the transaction
\* result, the payload strings, the timer marks, the indicator, the link mode,
\* the telemetry link and the config as they were.
C29_IdleStepChangesNothing ==
  [][(ev'.act = "loop" /\ ev'.req = "none"
      /\ ~ReconnectEligible /\ ~TransactionEligible
      /\ ~IndicatorEligible /\ ~TimeoutEligible) =>
       /\ ev'.delayUs = 0
       /\ ev'.restart = "none" /\ phase' = phase
       /\ ~ev'.connectCall /\ ev'.txn = 0 /\ ~ev'.armed /\ ~ev'.ledOffNow
       /\ ~ev'.published
       /\ UNCHANGED <<role, nvs, cfg, apMode, wifiConnected, mqttConnected, mqttLink,
                      txCount, lastTx, lastLedOff, lastMqttReconnect, apStartTime,
                      ledOn, lastSpiResult, rxBuf, rxLen, lastRxData, lastRxAscii>>
    ]_vars

\* a step invoked one millisecond before the flash ends, after a first
\* transaction: the indicator is still on and nothing has moved
C29_Witness ==
  /\ ev.act = "loop" /\ ev.req = "none" /\ ev.restart = "none"
  /\ ev.txn = 0 /\ ~ev.connectCall /\ ~ev.ledOffNow /\ ev.delayUs = 0
  /\ ledOn /\ txCount = 1
  /\ lastTx # now /\ lastLedOff = Add32(now, U32(1))

\* C30: for every response the receiver's classified length is in 0..32, the
\* hex rendering with its terminator, before and after the trailing space is
\* trimmed, fits the 97 bytes of lastRxData, and the ascii rendering with its
\* terminator fits the 33 bytes of lastRxAscii.
C30_RenderingInBounds ==
  Received =>
    /\ rxLen \in 0..32
    /\ (lastSpiResult = 0) =>
         /\ Len(HexLoop(rxBuf, 1, rxLen)) = 3 * rxLen
         /\ Len(HexLoop(rxBuf, 1, rxLen)) + 1 <= 97
         /\ Len(AsciiLoop(rxBuf, 1, rxLen)) + 1 <= 33
    /\ Len(lastRxData) + 1 <= 97
    /\ Len(lastRxAscii) + 1 <= 33
    /\ HEX_BUF_SIZE = 97 /\ ASCII_BUF_SIZE = 33

\* 32 data bytes: 96 characters and the terminator written, 95 kept; 32
\* characters of ascii and the terminator
C30_Witness ==
  /\ Received /\ lastSpiResult = 0
  /\ rxBuf[1] = 65 /\ rxBuf[32] = 96
  /\ rxLen = 32
  /\ Len(HexLoop(rxBuf, 1, rxLen)) + 1 = HEX_BUF_SIZE
  /\ Len(lastRxData) = 95
  /\ Len(lastRxAscii) + 1 = ASCII_BUF_SIZE

====
